---- MODULE Spec2Model ----
(***************************************************************************)
(* Job lifecycle of the research API (src/api_server.py).                  *)
(*                                                                         *)
(* search_sessions is the process-wide mapping from session id to job     *)
(* record.  Every POST /search starts one tracker thread                   *)
(* (run_research_with_tracking); the tracker starts one pipeline thread    *)
(* (run_graph, on a ThreadPoolExecutor) and waits for it with a timeout.   *)
(* The API handlers run on a third thread.  Threads interleave between     *)
(* any two accesses to search_sessions, so each access is one step:        *)
(*   - `id in search_sessions`                      (a check),             *)
(*   - `search_sessions[id]` followed by a read or a write of the record   *)
(*     it returns (KeyError when the id is gone at the lookup; a write to  *)
(*     a record deleted after the lookup is invisible, which is the same   *)
(*     as the delete happening after the write).                           *)
(* The clock is abstracted: the tracker's wait may expire at any moment    *)
(* at which the future is not done.  graph.invoke is opaque: it returns a  *)
(* state, raises, or never returns, and does not touch search_sessions.    *)
(* It raises Exception subclasses only.  print and logger.error do not     *)
(* fail.  created_at / updated_at are wall-clock values no property reads; *)
(* they are left out of the record, and completed_at is "now" once set.    *)
(*                                                                         *)
(* Three specifications share the module.  Spec is the job tracker with    *)
(* every API handler served in one step.  ReadSpec follows GET /status     *)
(* through its five reads of the record, one step each, with the worker    *)
(* threads running in between.  WebSpec is src/web_operations.py:          *)
(* serp_search and _trigger_and_download_snapshot against a provider that  *)
(* answers each request in any way it can (no answer, an error status, a   *)
(* body that is not JSON, or any JSON value).                              *)
(***************************************************************************)
EXTENDS Integers, Sequences, FiniteSets, TLC

\* ---------------------------------------------------------------- bounds
MaxJobs == 2

Ids == 1..MaxJobs
Questions == {"", "q"}
Answers == {"answer"}
Roles == {"tracker", "pipeline"}

\* ------------------------------------------------------------ Python values
None == "<None>"
Truthy(x) == x # None /\ x # ""

NoExc == [cls |-> "NoExc", msg |-> ""]
KeyError == [cls |-> "KeyError", msg |-> "session_id"]
\* what graph.invoke may raise: an ordinary failure, or the timeout class that
\* the tracker's `except concurrent.futures.TimeoutError` clause names
PipelineErrors ==
    { [cls |-> "RuntimeError", msg |-> "boom"],
      [cls |-> "TimeoutError", msg |-> "upstream timed out"] }
IsTimeoutError(e) == e.cls = "TimeoutError"

\* the values of final_state.get("final_answer") graph.invoke may return
FinalAnswers == Answers \cup {"", None}

TimeoutText == "Research process timed out. Try a simpler query or check your internet connection."
PartialText == "Research completed with partial results. Some data sources may have failed."
ErrorResult(e) == <<"Research failed due to an error: ", e.msg>>
ErrorMessage(e) == <<"Error occurred: ", e.msg>>

Terminal == {"completed", "partial_success", "timeout", "error"}

VARIABLES
    search_sessions,  \* id -> job record, for the ids in the store
    issued,           \* the ids uuid4 has produced so far
    pc,               \* pc[id][role]: where the thread of that role of job id stands
    tmp,              \* tmp[id][role]: output_log as read by a log_to_session in progress
    future,           \* future[id]: the executor future of run_graph
    final_state,      \* final_state[id]: how the tracker's future.result(...) ended
    exc,              \* exc[id]: the exception propagating in the tracker
    question,         \* question[id]: the tracker's `question` argument
    reader,           \* a GET /status handler reading a record field by field
    serp,             \* a call of serp_search (src/web_operations.py)
    snap              \* a call of _trigger_and_download_snapshot

\* the state of the job tracker and its store, and the state of the other parts
api == <<search_sessions, issued, pc, tmp, future, final_state, exc, question>>
rest == <<reader, serp, snap>>
vars == <<search_sessions, issued, pc, tmp, future, final_state, exc, question,
          reader, serp, snap>>

InStore(id) == id \in DOMAIN search_sessions

\* ------------------------------------------------------------ control points
USites == {"upd_init", "upd_rg"}
LSites == {"log_start", "log_rg", "log_completed", "log_partial", "log_timeout", "exc_log"}
FirstSub(site) == IF site \in USites THEN "uchk" ELSE IF site \in LSites THEN "lchk" ELSE "enter"
Goto(site) == [site |-> site, sub |-> FirstSub(site)]

\* tracker sites before the `with` block and inside it; the remaining ones are
\* the except handler and the end of the thread
PreWith == {"set_running", "upd_init", "log_start"}
InWith == {"submit", "wait", "upd_completed", "log_completed", "upd_partial",
           "log_partial", "upd_timeout", "log_timeout"}

\* the statement that follows a site when it completes normally
After(site) ==
    CASE site = "set_running"   -> "upd_init"
      [] site = "upd_init"      -> "log_start"
      [] site = "log_start"     -> "submit"
      [] site = "submit"        -> "wait"
      [] site = "upd_completed" -> "log_completed"
      [] site = "upd_partial"   -> "log_partial"
      [] site = "upd_timeout"   -> "log_timeout"
      [] site = "log_completed" -> "shutdown"
      [] site = "log_partial"   -> "shutdown"
      [] site = "log_timeout"   -> "shutdown"
      [] site = "exc_log"       -> "exc_upd"
      [] site = "exc_upd"       -> "done"
      [] site = "log_rg"        -> "upd_rg"
      [] site = "upd_rg"        -> "invoke"
      [] OTHER                  -> "done"

\* ------------------------------------------------------------ log lines
Line(text, arg) == [text |-> text, arg |-> arg]

\* update_session_progress(session_id, progress, step, message) at the U sites
UpdArgs(site) ==
    IF site = "upd_init"
    THEN [progress |-> 5, current_step |-> "initializing", message |-> "Starting research process..."]
    ELSE [progress |-> 10, current_step |-> "research_started", message |-> "Running parallel searches..."]

\* the message a site hands to log_to_session
LogLine(id, site, q, e) ==
    CASE site \in USites           -> Line(UpdArgs(site).current_step, UpdArgs(site).message)
      [] site = "log_start"        -> Line("Starting multi-source research for: ", q)
      [] site = "log_rg"           -> Line("Starting parallel research process...", "")
      [] site = "log_completed"    -> Line("Research completed successfully!", "")
      [] site = "log_partial"      -> Line("Research completed with some issues", "")
      [] site = "log_timeout"      -> Line("Research timed out after 7 minutes", "")
      [] OTHER                     -> Line("Research failed: ", e.msg)

\* ------------------------------------------------------------ initial state
NoFuture == [kind |-> "none", val |-> None, err |-> NoExc]
NotWaited == [how |-> "none", val |-> None, err |-> NoExc]

\* no GET /status request is being served; no call of web_operations is running
NoRequest == [pc |-> "idle", id |-> 0, resp |-> <<>>]
NoCall == [pc |-> "idle"]

Init ==
    /\ search_sessions = <<>>
    /\ issued = {}
    /\ pc = [id \in Ids |-> [r \in Roles |-> Goto("idle")]]
    /\ tmp = [id \in Ids |-> [r \in Roles |-> <<>>]]
    /\ future = [id \in Ids |-> NoFuture]
    /\ final_state = [id \in Ids |-> NotWaited]
    /\ exc = [id \in Ids |-> NoExc]
    /\ question = [id \in Ids |-> None]
    /\ reader = NoRequest
    /\ serp = NoCall
    /\ snap = NoCall

\* ------------------------------------------------------------ exceptions
\* An exception raised in the tracker at its current site: before the `with`
\* block it reaches the except handler at once; inside the block it first passes
\* the block's exit (executor.shutdown(wait=True)); inside the handler nothing
\* catches it and the thread ends.
TrackerRaise(id, e) ==
    /\ pc' = [pc EXCEPT ![id]["tracker"] =
                 IF @.site \in PreWith THEN Goto("exc_log")
                 ELSE IF @.site \in InWith THEN Goto("shutdown")
                 ELSE Goto("dead")]
    /\ exc' = [exc EXCEPT ![id] = e]
    /\ UNCHANGED future

\* An exception raised in run_graph is stored in the future by the executor.
PipelineRaise(id, e) ==
    /\ pc' = [pc EXCEPT ![id]["pipeline"] = Goto("done")]
    /\ future' = [future EXCEPT ![id] = [kind |-> "exc", val |-> None, err |-> e]]
    /\ UNCHANGED exc

Raise(id, r, e) == IF r = "tracker" THEN TrackerRaise(id, e) ELSE PipelineRaise(id, e)

\* ------------------------------------------------------------ log_to_session
\* `if session_id in search_sessions:`
LogCheck(id, r) ==
    /\ UNCHANGED rest
    /\ pc[id][r].sub = "lchk"
    /\ pc' = [pc EXCEPT ![id][r] =
                 IF InStore(id) THEN [@ EXCEPT !.sub = "lread"] ELSE Goto(After(@.site))]
    /\ UNCHANGED <<search_sessions, issued, tmp, future, final_state, exc, question>>

\* right-hand side: search_sessions[session_id].get("output_log", "") + log_entry
LogRead(id, r) ==
    /\ UNCHANGED rest
    /\ pc[id][r].sub = "lread"
    /\ IF InStore(id)
       THEN /\ tmp' = [tmp EXCEPT ![id][r] = search_sessions[id].output_log]
            /\ pc' = [pc EXCEPT ![id][r].sub = "lwrite"]
            /\ UNCHANGED <<future, exc>>
       ELSE /\ Raise(id, r, KeyError)
            /\ UNCHANGED tmp
    /\ UNCHANGED <<search_sessions, issued, final_state, question>>

\* log_to_session written with search_sessions.setdefault(session_id, {}): a
\* missing record is created again by the write
LogWrite_Recreate(id, r) ==
    /\ UNCHANGED rest
    /\ pc[id][r].sub = "lwrite"
    /\ search_sessions' =
         IF InStore(id)
         THEN [search_sessions EXCEPT ![id].output_log =
                  Append(tmp[id][r], LogLine(id, pc[id][r].site, question[id], exc[id]))]
         ELSE search_sessions @@
              (id :> [session_id |-> id, question |-> None, status |-> None, progress |-> 0,
                      current_step |-> None, message |-> None, result |-> None,
                      output_log |-> <<LogLine(id, pc[id][r].site, question[id], exc[id])>>,
                      completed_at |-> None])
    /\ pc' = [pc EXCEPT ![id][r] = Goto(After(@.site))]
    /\ tmp' = [tmp EXCEPT ![id][r] = <<>>]
    /\ UNCHANGED <<issued, future, final_state, exc, question>>

\* left-hand side: search_sessions[session_id]["output_log"] = <the value computed>
LogWrite(id, r) ==
    /\ UNCHANGED rest
    /\ pc[id][r].sub = "lwrite"
    /\ IF InStore(id)
       THEN /\ search_sessions' = [search_sessions EXCEPT ![id].output_log =
                  Append(tmp[id][r], LogLine(id, pc[id][r].site, question[id], exc[id]))]
            /\ pc' = [pc EXCEPT ![id][r] = Goto(After(@.site))]
            /\ UNCHANGED <<future, exc>>
       ELSE /\ Raise(id, r, KeyError)
            /\ UNCHANGED search_sessions
    /\ tmp' = [tmp EXCEPT ![id][r] = <<>>]
    /\ UNCHANGED <<issued, final_state, question>>

\* ------------------------------------------------------------ update_session_progress
\* `if session_id in search_sessions:`
UpdCheck(id, r) ==
    /\ UNCHANGED rest
    /\ pc[id][r].sub = "uchk"
    /\ pc' = [pc EXCEPT ![id][r] =
                 IF InStore(id) THEN [@ EXCEPT !.sub = "uupd"] ELSE Goto(After(@.site))]
    /\ UNCHANGED <<search_sessions, issued, tmp, future, final_state, exc, question>>


\* an update that writes the progress fields into every record of the store
UpdApply_Everywhere(id, r) ==
    /\ UNCHANGED rest
    /\ pc[id][r].sub = "uupd"
    /\ IF InStore(id)
       THEN /\ search_sessions' = [i \in DOMAIN search_sessions |->
                  [search_sessions[i] EXCEPT
                       !.progress = UpdArgs(pc[id][r].site).progress,
                       !.current_step = UpdArgs(pc[id][r].site).current_step,
                       !.message = UpdArgs(pc[id][r].site).message]]
            /\ pc' = [pc EXCEPT ![id][r].sub = "lchk"]
            /\ UNCHANGED <<future, exc>>
       ELSE /\ Raise(id, r, KeyError)
            /\ UNCHANGED search_sessions
    /\ UNCHANGED <<issued, tmp, final_state, question>>

\* search_sessions[session_id].update({progress, current_step, message, updated_at});
\* log_to_session follows
UpdApply(id, r) ==
    /\ UNCHANGED rest
    /\ pc[id][r].sub = "uupd"
    /\ IF InStore(id)
       THEN /\ search_sessions' = [search_sessions EXCEPT ![id] =
                  [@ EXCEPT !.progress = UpdArgs(pc[id][r].site).progress,
                            !.current_step = UpdArgs(pc[id][r].site).current_step,
                            !.message = UpdArgs(pc[id][r].site).message]]
            /\ pc' = [pc EXCEPT ![id][r].sub = "lchk"]
            /\ UNCHANGED <<future, exc>>
       ELSE /\ Raise(id, r, KeyError)
            /\ UNCHANGED search_sessions
    /\ UNCHANGED <<issued, tmp, final_state, question>>

\* ------------------------------------------------------------ run_research_with_tracking
Others == <<issued, tmp, final_state, question>>

\* search_sessions[session_id]["status"] = "running"
SetRunning(id) ==
    /\ UNCHANGED rest
    /\ pc[id]["tracker"].site = "set_running"
    /\ IF InStore(id)
       THEN /\ search_sessions' = [search_sessions EXCEPT ![id].status = "running"]
            /\ pc' = [pc EXCEPT ![id]["tracker"] = Goto(After(@.site))]
            /\ UNCHANGED <<future, exc>>
       ELSE /\ TrackerRaise(id, KeyError)
            /\ UNCHANGED search_sessions
    /\ UNCHANGED Others

\* future = executor.submit(run_graph): the pipeline thread starts
SubmitGraph(id) ==
    /\ UNCHANGED rest
    /\ pc[id]["tracker"].site = "submit"
    /\ pc' = [pc EXCEPT ![id] = [tracker |-> Goto("wait"), pipeline |-> Goto("log_rg")]]
    /\ future' = [future EXCEPT ![id] = [kind |-> "pending", val |-> None, err |-> NoExc]]
    /\ UNCHANGED <<search_sessions, exc>>
    /\ UNCHANGED Others

\* return graph.invoke(state): the opaque pipeline returns a state with some
\* final_answer, returns no state, or raises; it may also never take this step
Invoke(id) ==
    /\ UNCHANGED rest
    /\ pc[id]["pipeline"].site = "invoke"
    /\ \/ \E a \in FinalAnswers :
            future' = [future EXCEPT ![id] = [kind |-> "state", val |-> a, err |-> NoExc]]
       \/ future' = [future EXCEPT ![id] = [kind |-> "nostate", val |-> None, err |-> NoExc]]
       \/ \E e \in PipelineErrors :
            future' = [future EXCEPT ![id] = [kind |-> "exc", val |-> None, err |-> e]]
    /\ pc' = [pc EXCEPT ![id]["pipeline"] = Goto("done")]
    /\ UNCHANGED <<search_sessions, exc>>
    /\ UNCHANGED Others

\* `if final_state and final_state.get("final_answer"):`
HasAnswer(fs) == fs.how = "state" /\ Truthy(fs.val)

\* final_state = future.result(timeout=420), the future holding a result
WaitReturn(id) ==
    /\ UNCHANGED rest
    /\ pc[id]["tracker"].site = "wait"
    /\ future[id].kind \in {"state", "nostate"}
    /\ final_state' = [final_state EXCEPT ![id] =
                          [how |-> future[id].kind, val |-> future[id].val, err |-> NoExc]]
    /\ pc' = [pc EXCEPT ![id]["tracker"] =
                 IF HasAnswer(final_state'[id]) THEN Goto("upd_completed") ELSE Goto("upd_partial")]
    /\ UNCHANGED <<search_sessions, issued, tmp, future, exc, question>>

\* future.result(timeout=420), the future holding the exception run_graph raised:
\* result() re-raises it; `except concurrent.futures.TimeoutError` catches it when
\* it is of that class, anything else leaves the `with` block
WaitRaise(id) ==
    /\ UNCHANGED rest
    /\ pc[id]["tracker"].site = "wait"
    /\ future[id].kind = "exc"
    /\ final_state' = [final_state EXCEPT ![id] =
                          [how |-> "raised", val |-> None, err |-> future[id].err]]
    /\ IF IsTimeoutError(future[id].err)
       THEN /\ pc' = [pc EXCEPT ![id]["tracker"] = Goto("upd_timeout")]
            /\ UNCHANGED <<future, exc>>
       ELSE TrackerRaise(id, future[id].err)
    /\ UNCHANGED <<search_sessions, issued, tmp, question>>

\* future.result() called without a timeout: the wait never expires
WaitExpire_NoTimeout(id) ==
    /\ FALSE
    /\ UNCHANGED vars

\* future.result(timeout=420), the 420 seconds passing with the future not done
WaitExpire(id) ==
    /\ UNCHANGED rest
    /\ pc[id]["tracker"].site = "wait"
    /\ future[id].kind = "pending"
    /\ final_state' = [final_state EXCEPT ![id] =
                          [how |-> "expired", val |-> None, err |-> NoExc]]
    /\ pc' = [pc EXCEPT ![id]["tracker"] = Goto("upd_timeout")]
    /\ UNCHANGED <<search_sessions, issued, tmp, future, exc, question>>

\* the dictionaries of the three search_sessions[session_id].update({...}) calls
\* that end the try block
TerminalFields(site, fs) ==
    CASE site = "upd_completed" ->
           [status |-> "completed", progress |-> 100, current_step |-> "completed",
            message |-> "Research completed successfully!", result |-> fs.val]
      [] site = "upd_partial" ->
           [status |-> "partial_success", progress |-> 90,
            current_step |-> "completed_with_issues",
            message |-> "Research completed but with some issues", result |-> PartialText]
      [] OTHER ->
           [status |-> "timeout", progress |-> 75, current_step |-> "timeout",
            message |-> "Research timed out after 7 minutes", result |-> TimeoutText]

\* the dictionary of the update in the except handler
ErrorFields(e) ==
    [status |-> "error", progress |-> 0, current_step |-> "error",
     message |-> ErrorMessage(e), result |-> ErrorResult(e)]

\* a terminal update that leaves `result` out of the dictionary
Updated_NoResult(rec, f) ==
    [rec EXCEPT !.status = f.status, !.progress = f.progress,
                !.current_step = f.current_step, !.message = f.message,
                !.completed_at = "now"]


\* a terminal update that leaves `completed_at` out of the dictionary
Updated_NoStamp(rec, f) ==
    [rec EXCEPT !.status = f.status, !.progress = f.progress,
                !.current_step = f.current_step, !.message = f.message,
                !.result = f.result]

\* dict.update with one of the dictionaries above and completed_at
Updated(rec, f) ==
    [rec EXCEPT !.status = f.status, !.progress = f.progress,
                !.current_step = f.current_step, !.message = f.message,
                !.result = f.result, !.completed_at = "now"]

\* the timeout update placed after the `with` block, so that it runs only once
\* run_graph has ended
TerminalUpdate_AfterJoin(id) ==
    /\ UNCHANGED rest
    /\ pc[id]["tracker"].site \in {"upd_completed", "upd_partial", "upd_timeout"}
    /\ pc[id]["pipeline"].site = "done"
    /\ IF InStore(id)
       THEN /\ search_sessions' = [search_sessions EXCEPT ![id] =
                  Updated(@, TerminalFields(pc[id]["tracker"].site, final_state[id]))]
            /\ pc' = [pc EXCEPT ![id]["tracker"] = Goto(After(@.site))]
            /\ UNCHANGED <<future, exc>>
       ELSE /\ TrackerRaise(id, KeyError)
            /\ UNCHANGED search_sessions
    /\ UNCHANGED Others

\* search_sessions[session_id].update({"status": "completed" | "partial_success" |
\* "timeout", ...})
TerminalUpdate(id) ==
    /\ UNCHANGED rest
    /\ pc[id]["tracker"].site \in {"upd_completed", "upd_partial", "upd_timeout"}
    /\ IF InStore(id)
       THEN /\ search_sessions' = [search_sessions EXCEPT ![id] =
                  Updated(@, TerminalFields(pc[id]["tracker"].site, final_state[id]))]
            /\ pc' = [pc EXCEPT ![id]["tracker"] = Goto(After(@.site))]
            /\ UNCHANGED <<future, exc>>
       ELSE /\ TrackerRaise(id, KeyError)
            /\ UNCHANGED search_sessions
    /\ UNCHANGED Others

\* the `with` block re-raising, on its way out, the exception a late run_graph
\* left in the future
Shutdown_Reraise(id) ==
    /\ UNCHANGED rest
    /\ pc[id]["tracker"].site = "shutdown"
    /\ pc[id]["pipeline"].site = "done"
    /\ pc' = [pc EXCEPT ![id]["tracker"] =
                 IF exc[id] # NoExc \/ future[id].kind = "exc"
                 THEN Goto("exc_log") ELSE Goto("done")]
    /\ exc' = [exc EXCEPT ![id] =
                 IF exc[id] = NoExc /\ future[id].kind = "exc" THEN future[id].err ELSE @]
    /\ UNCHANGED <<search_sessions, future>>
    /\ UNCHANGED Others

\* leaving `with concurrent.futures.ThreadPoolExecutor() as executor:` is
\* executor.shutdown(wait=True): it returns when run_graph has ended; an exception
\* on its way out then reaches `except Exception as e`
Shutdown(id) ==
    /\ UNCHANGED rest
    /\ pc[id]["tracker"].site = "shutdown"
    /\ pc[id]["pipeline"].site = "done"
    /\ pc' = [pc EXCEPT ![id]["tracker"] =
                 IF exc[id] # NoExc THEN Goto("exc_log") ELSE Goto("done")]
    /\ UNCHANGED <<search_sessions, future, exc>>
    /\ UNCHANGED Others

\* search_sessions[session_id].update({"status": "error", ...}) in the handler
ErrorUpdate(id) ==
    /\ UNCHANGED rest
    /\ pc[id]["tracker"].site = "exc_upd"
    /\ IF InStore(id)
       THEN /\ search_sessions' = [search_sessions EXCEPT ![id] =
                  Updated(@, ErrorFields(exc[id]))]
            /\ pc' = [pc EXCEPT ![id]["tracker"] = Goto(After(@.site))]
            /\ UNCHANGED <<future, exc>>
       ELSE /\ TrackerRaise(id, KeyError)
            /\ UNCHANGED search_sessions
    /\ UNCHANGED Others

\* ------------------------------------------------------------ the API
\* The handlers run on the event loop, one at a time.  A response is the value
\* the handler returns for the store it reads; the store is the only state a
\* handler touches.

\* a record created already running, with the worker's first progress value
NewSession_Running(id, q) ==
    [session_id |-> id, question |-> q, status |-> "running", progress |-> 5,
     current_step |-> "initializing", message |-> "Research session started",
     result |-> None, output_log |-> <<>>, completed_at |-> None]

\* the record start_search stores
NewSession(id, q) ==
    [session_id |-> id, question |-> q, status |-> "started", progress |-> 0,
     current_step |-> "initializing", message |-> "Research session started",
     result |-> None, output_log |-> <<>>, completed_at |-> None]

\* session_id = str(uuid.uuid4()): an id never produced before
FreshId == Cardinality(issued) + 1

\* return SearchResponse(session_id=..., status="started", message=...)
SearchResponse(id) ==
    [code |-> 200, session_id |-> id, status |-> "started",
     message |-> "Research session started successfully"]

\* POST /search: store the record, start the tracker thread, return
start_search(q) ==
    /\ UNCHANGED rest
    /\ FreshId \in Ids
    /\ LET id == FreshId IN
        /\ issued' = issued \cup {id}
        /\ search_sessions' = search_sessions @@ (id :> NewSession(id, q))
        /\ question' = [question EXCEPT ![id] = q]
        /\ pc' = [pc EXCEPT ![id]["tracker"] = Goto("set_running")]
    /\ UNCHANGED <<tmp, future, final_state, exc>>

\* raise HTTPException(status_code=404, detail="Session not found")
NotFound == [code |-> 404, detail |-> "Session not found"]

\* the value GET /status/{session_id} returns when no worker write falls between
\* the reads of the record's fields
StatusResponse(id) ==
    IF ~InStore(id) THEN NotFound
    ELSE [code |-> 200, session_id |-> id,
          status |-> search_sessions[id].status,
          progress |-> search_sessions[id].progress,
          current_step |-> search_sessions[id].current_step,
          message |-> search_sessions[id].message,
          result |-> search_sessions[id].result]

\* GET /status/{session_id}: reads the store, writes nothing
get_search_status(id) ==
    /\ StatusResponse(id).code \in {200, 404}
    /\ UNCHANGED vars

\* the value GET /output/{session_id} returns
OutputResponse(id) ==
    IF ~InStore(id) THEN NotFound
    ELSE [code |-> 200, session_id |-> id,
          output_log |-> search_sessions[id].output_log]

\* GET /output/{session_id}: reads the store, writes nothing
get_output_log(id) ==
    /\ OutputResponse(id).code \in {200, 404}
    /\ UNCHANGED vars

\* the value GET /sessions returns: list(search_sessions.values())
SessionsResponse ==
    [code |-> 200, sessions |-> {search_sessions[id] : id \in DOMAIN search_sessions}]

\* GET /sessions
list_sessions ==
    /\ SessionsResponse.code = 200
    /\ UNCHANGED vars

\* the value GET /health returns
HealthResponse ==
    [code |-> 200, status |-> "healthy",
     active_sessions |-> Cardinality(DOMAIN search_sessions)]

\* GET /health
health_check ==
    /\ HealthResponse.code = 200
    /\ UNCHANGED vars


\* a delete that skips the membership test: `del` of a missing key raises
\* KeyError, which the framework turns into a server fault
DeleteResponse_NoCheck(id) ==
    IF ~InStore(id) THEN [code |-> 500, detail |-> "Internal Server Error"]
    ELSE [code |-> 200, message |-> "Session deleted successfully"]

\* the value DELETE /session/{session_id} returns
DeleteResponse(id) ==
    IF ~InStore(id) THEN NotFound
    ELSE [code |-> 200, message |-> "Session deleted successfully"]


\* a delete that empties the store: search_sessions.clear()
delete_session_Clear(id) ==
    /\ UNCHANGED rest
    /\ IF ~InStore(id)
       THEN UNCHANGED search_sessions
       ELSE search_sessions' = <<>>
    /\ UNCHANGED <<issued, pc, tmp, future, final_state, exc, question>>

\* DELETE /session/{session_id}
delete_session(id) ==
    /\ UNCHANGED rest
    /\ IF ~InStore(id)
       THEN UNCHANGED search_sessions
       ELSE search_sessions' = [i \in DOMAIN search_sessions \ {id} |-> search_sessions[i]]
    /\ UNCHANGED <<issued, pc, tmp, future, final_state, exc, question>>


\* ------------------------------------------------------------ GET /status, read by read
\* get_search_status builds its response from five subscript reads of the
\* record (lines 201-205).  The handler runs on the event loop, so no other
\* handler runs between its statements, but the worker threads do.

\* the keyword arguments in the order the handler evaluates them
StatusFields == <<"status", "progress", "current_step", "message", "result">>

FieldOf(rec, f) ==
    CASE f = "status"       -> rec.status
      [] f = "progress"     -> rec.progress
      [] f = "current_step" -> rec.current_step
      [] f = "message"      -> rec.message
      [] OTHER              -> rec.result

\* lines 194-197: the membership test and `session = search_sessions[session_id]`
StatusLookup(id) ==
    /\ reader.pc = "idle"
    /\ reader' = IF InStore(id)
                 THEN [pc |-> "read", id |-> id, resp |-> <<>>]
                 ELSE [pc |-> "respond", id |-> id, resp |-> NotFound]
    /\ UNCHANGED <<api, serp, snap>>

\* one of session["status"], session["progress"], session["current_step"],
\* session["message"], session.get("result")
StatusRead ==
    /\ reader.pc = "read"
    /\ LET value == FieldOf(search_sessions[reader.id], StatusFields[Len(reader.resp) + 1])
           read == Append(reader.resp, value)
       IN reader' =
            IF Len(read) < Len(StatusFields)
            THEN [reader EXCEPT !.resp = read]
            ELSE [reader EXCEPT !.pc = "respond",
                                !.resp = [code |-> 200, session_id |-> reader.id,
                                          status |-> read[1], progress |-> read[2],
                                          current_step |-> read[3], message |-> read[4],
                                          result |-> read[5]]]
    /\ UNCHANGED <<api, serp, snap>>

\* the response leaves the handler
StatusReturn ==
    /\ reader.pc = "respond"
    /\ reader' = NoRequest
    /\ UNCHANGED <<api, serp, snap>>


\* ------------------------------------------------------------ web_operations: JSON values
\* What response.json() may hand back: an object, an array, or null.  An object
\* is a function from its keys to their values; the values of "knowledge" and
\* "organic" are opaque, the value of "snapshot_id" is an id, "" or null.
JsonNull == [type |-> "null"]
EmptyDict == "{}"
EmptyList == "[]"

KeyValues(k) ==
    CASE k = "knowledge"   -> {"knowledge graph"}
      [] k = "organic"     -> {"organic results"}
      [] OTHER             -> {"s_1", "", None}

Keys == {"knowledge", "organic", "snapshot_id"}

JsonObjects ==
    UNION { {[type |-> "object", items |-> f] :
                f \in {g \in [ks -> UNION {KeyValues(k) : k \in Keys}] :
                          \A k \in ks : g[k] \in KeyValues(k)}} :
            ks \in SUBSET Keys }

JsonArrays == {[type |-> "array", items |-> <<>>], [type |-> "array", items |-> <<"item">>]}

JsonValues == JsonObjects \cup JsonArrays \cup {JsonNull}

\* bool(value) of a parsed JSON value; Python's None is what null parses to
JsonTruthy(v) ==
    CASE v.type = "object" -> DOMAIN v.items # {}
      [] v.type = "array"  -> Len(v.items) > 0
      [] OTHER             -> FALSE

\* dict.get(key, default)
Get(v, key, default) == IF key \in DOMAIN v.items THEN v.items[key] ELSE default

\* what the provider can do with one POST: no answer at all, an answer with an
\* error status, an answer whose body is not JSON, or an answer with a JSON body
Responses ==
    {[kind |-> k, body |-> JsonNull] : k \in {"transport_error", "bad_status", "not_json"}}
    \cup {[kind |-> "ok", body |-> b] : b \in JsonValues}

\* _make_api_request: response.json() of an answer with a success status and a
\* JSON body; None when requests.post, raise_for_status or json() raised
make_api_request(response) ==
    IF response.kind = "ok" THEN response.body ELSE JsonNull

AttributeError == [cls |-> "AttributeError", msg |-> "'list' object has no attribute 'get'"]
ValueError == [cls |-> "ValueError", msg |-> "Unsupported search engine. Use 'google' or 'bing'."]

\* ------------------------------------------------------------ serp_search
Engines == {"google", "bing", "duckduckgo"}
zones_to_try == <<"ai_agent">>

\* extracted_data: {"knowledge": full_response.get("knowledge", {}),
\*                  "organic": full_response.get("organic", [])}
Normalized(v) ==
    [type |-> "object",
     items |-> [k \in {"knowledge", "organic"} |->
                   IF k = "knowledge" THEN Get(v, "knowledge", EmptyDict)
                   ELSE Get(v, "organic", EmptyList)]]

\* serp_search(query, engine) is called
serp_search(engine) ==
    /\ serp.pc = "idle"
    /\ serp' = IF engine \in {"google", "bing"}
               THEN [pc |-> "request", engine |-> engine, zone |-> 1, answers |-> <<>>,
                     full_response |-> JsonNull, result |-> JsonNull, err |-> NoExc]
               ELSE [pc |-> "raised", engine |-> engine, zone |-> 1, answers |-> <<>>,
                     full_response |-> JsonNull, result |-> JsonNull, err |-> ValueError]
    /\ UNCHANGED <<api, reader, snap>>

\* full_response = _make_api_request(url, json=payload) for the next zone;
\* serp.answers keeps what the provider answered, zone by zone
SerpRequest(response) ==
    /\ serp.pc = "request"
    /\ serp.zone <= Len(zones_to_try)
    /\ serp' = [serp EXCEPT !.pc = "branch",
                            !.answers = Append(@, response),
                            !.full_response = make_api_request(response)]
    /\ UNCHANGED <<api, reader, snap>>

\* `if full_response:` with the two .get calls and the return, or the next zone
SerpBranch ==
    /\ serp.pc = "branch"
    /\ serp' =
         IF JsonTruthy(serp.full_response)
         THEN IF serp.full_response.type = "object"
              THEN [serp EXCEPT !.pc = "returned",
                                !.result = Normalized(serp.full_response)]
              ELSE [serp EXCEPT !.pc = "raised", !.err = AttributeError]
         ELSE [serp EXCEPT !.pc = "request", !.zone = @ + 1]
    /\ UNCHANGED <<api, reader, snap>>

\* the loop is over: return None
SerpExhausted ==
    /\ serp.pc = "request"
    /\ serp.zone > Len(zones_to_try)
    /\ serp' = [serp EXCEPT !.pc = "returned", !.result = JsonNull]
    /\ UNCHANGED <<api, reader, snap>>

\* the caller has the value or the exception
SerpDone ==
    /\ serp.pc \in {"returned", "raised"}
    /\ serp' = NoCall
    /\ UNCHANGED <<api, reader, snap>>


\* ------------------------------------------------------------ _trigger_and_download_snapshot
\* What poll_snapshot_status(snapshot_id) observes before it returns (True for
\* ready, False otherwise), and what download_snapshot(snapshot_id) returns.
PollStatuses == {"ready", "failed", "timeout"}
Downloads == {[type |-> "array", items |-> <<"item">>], JsonNull}

\* _trigger_and_download_snapshot(trigger_url, params, data) is called
trigger_and_download_snapshot ==
    /\ snap.pc = "idle"
    /\ snap' = [pc |-> "trigger", calls |-> <<>>, answer |-> <<>>,
                trigger_result |-> JsonNull, snapshot_id |-> None, poll |-> None,
                result |-> JsonNull, err |-> NoExc]
    /\ UNCHANGED <<api, reader, serp>>

\* lines 73-81: the trigger request, `if not trigger_result`, the .get of
\* "snapshot_id" and `if not snapshot_id`; snap.calls records the requests made
SnapTrigger(response) ==
    /\ snap.pc = "trigger"
    /\ LET trigger_result == make_api_request(response)
           called == [snap EXCEPT !.calls = Append(@, "trigger"), !.answer = response,
                                  !.trigger_result = trigger_result]
       IN snap' =
            IF ~JsonTruthy(trigger_result)
            THEN [called EXCEPT !.pc = "returned"]
            ELSE IF trigger_result.type # "object"
            THEN [called EXCEPT !.pc = "raised", !.err = AttributeError]
            ELSE LET snapshot_id == Get(trigger_result, "snapshot_id", None)
                 IN IF ~Truthy(snapshot_id)
                    THEN [called EXCEPT !.pc = "returned", !.snapshot_id = snapshot_id]
                    ELSE [called EXCEPT !.pc = "poll", !.snapshot_id = snapshot_id]
    /\ UNCHANGED <<api, reader, serp>>

\* a poll whose outcome is not tested
SnapPoll_Unchecked(status) ==
    /\ snap.pc = "poll"
    /\ snap' = [snap EXCEPT !.calls = Append(@, "poll"), !.poll = status,
                            !.pc = "download"]
    /\ UNCHANGED <<api, reader, serp>>

\* lines 83-86: `if not poll_snapshot_status(snapshot_id): return None`
SnapPoll(status) ==
    /\ snap.pc = "poll"
    /\ snap' = [snap EXCEPT !.calls = Append(@, "poll"), !.poll = status,
                            !.pc = IF status = "ready" THEN "download" ELSE "returned"]
    /\ UNCHANGED <<api, reader, serp>>

\* lines 88-90: raw_data = download_snapshot(snapshot_id); return raw_data
SnapDownload(data) ==
    /\ snap.pc = "download"
    /\ snap' = [snap EXCEPT !.calls = Append(@, "download"), !.result = data,
                            !.pc = "returned"]
    /\ UNCHANGED <<api, reader, serp>>

\* the caller has the value or the exception
SnapDone ==
    /\ snap.pc \in {"returned", "raised"}
    /\ snap' = NoCall
    /\ UNCHANGED <<api, reader, serp>>

\* The calls of web_operations the pipeline's parallel searches make: one
\* serp_search and one snapshot retrieval at a time, in any interleaving, the
\* provider answering each request in any of the ways it can.
WebNext ==
    \/ \E engine \in Engines : serp_search(engine)
    \/ \E response \in Responses : SerpRequest(response)
    \/ SerpBranch
    \/ SerpExhausted
    \/ SerpDone
    \/ trigger_and_download_snapshot
    \/ \E response \in Responses : SnapTrigger(response)
    \/ \E status \in PollStatuses : SnapPoll(status)
    \/ \E data \in Downloads : SnapDownload(data)
    \/ SnapDone

WebSpec == Init /\ [][WebNext]_vars

\* ------------------------------------------------------------ specification
TrackerStep(id) ==
    \/ SetRunning(id)
    \/ UpdCheck(id, "tracker")
    \/ UpdApply(id, "tracker")
    \/ LogCheck(id, "tracker")
    \/ LogRead(id, "tracker")
    \/ LogWrite(id, "tracker")
    \/ SubmitGraph(id)
    \/ WaitReturn(id)
    \/ WaitRaise(id)
    \/ WaitExpire(id)
    \/ TerminalUpdate(id)
    \/ Shutdown(id)
    \/ ErrorUpdate(id)

RunGraphStep(id) ==
    \/ LogCheck(id, "pipeline")
    \/ LogRead(id, "pipeline")
    \/ LogWrite(id, "pipeline")
    \/ UpdCheck(id, "pipeline")
    \/ UpdApply(id, "pipeline")

\* every step but a submission
Step ==
    \/ \E id \in Ids : get_search_status(id)
    \/ \E id \in Ids : get_output_log(id)
    \/ \E id \in Ids : delete_session(id)
    \/ list_sessions
    \/ health_check
    \/ \E id \in Ids : TrackerStep(id)
    \/ \E id \in Ids : RunGraphStep(id)
    \/ \E id \in Ids : Invoke(id)

Next ==
    \/ \E q \in Questions : start_search(q)
    \/ Step

Spec == Init /\ [][Next]_vars

\* The threads are scheduled fairly: a tracker or run_graph statement that can run
\* does run, and so does the expiry of the tracker's wait (the clock advances).
\* Nothing makes graph.invoke return, and nothing makes a client call the API.
\* Jobs share nothing but the store, so termination is followed for MaxFairJobs
\* submissions.
MaxFairJobs == 1

FairNext ==
    \/ \E q \in Questions : Cardinality(issued) < MaxFairJobs /\ start_search(q)
    \/ Step

Fairness == \A id \in Ids : WF_vars(TrackerStep(id)) /\ WF_vars(RunGraphStep(id))

FairSpec == Init /\ [][FairNext]_vars /\ Fairness

\* The service with GET /status followed read by read.  Submissions and
\* deletions are handlers too, so they run only while no GET /status is being
\* served.  Torn reads concern one record, so MaxReadJobs submissions are followed.
MaxReadJobs == 1

ReadNext ==
    \/ \E q \in Questions :
          reader.pc = "idle" /\ Cardinality(issued) < MaxReadJobs /\ start_search(q)
    \/ \E id \in Ids : reader.pc = "idle" /\ delete_session(id)
    \/ \E id \in Ids : TrackerStep(id)
    \/ \E id \in Ids : RunGraphStep(id)
    \/ \E id \in Ids : Invoke(id)
    \/ \E id \in Ids : StatusLookup(id)
    \/ StatusRead
    \/ StatusReturn

ReadSpec == Init /\ [][ReadNext]_vars

\* ------------------------------------------------------------ properties
Both(id) == id \in DOMAIN search_sessions /\ id \in DOMAIN search_sessions'
IsTerminal(id) == InStore(id) /\ search_sessions[id].status \in Terminal
TrackerAt(id) == pc[id]["tracker"].site
PipelineAt(id) == pc[id]["pipeline"].site
IsPrefix(s, t) == Len(s) <= Len(t) /\ SubSeq(t, 1, Len(s)) = s

\* C1: for every record in the store, result is non-null exactly when status is
\* one of completed, partial_success, timeout, error.
ResultIffTerminal ==
    \A id \in DOMAIN search_sessions :
        (search_sessions[id].result # None) <=> (search_sessions[id].status \in Terminal)

\* a running job without a result next to a finished job with one
ResultIffTerminal_Witness ==
    \E i, j \in DOMAIN search_sessions :
        /\ search_sessions[i].status = "running" /\ search_sessions[i].result = None
        /\ search_sessions[j].status \in Terminal /\ search_sessions[j].result # None

\* C2: a record's status moves only started -> running -> terminal, and a
\* terminal status never changes again while the record is in the store.
StatusMove(a, b) ==
    \/ a = b
    \/ a = "started" /\ b = "running"
    \/ a = "running" /\ b \in Terminal

StatusOnlyAdvances ==
    [][\A id \in Ids : Both(id) =>
          StatusMove(search_sessions[id].status, search_sessions'[id].status)]_vars

\* a job marked timeout whose pipeline failed afterwards, the tracker having
\* left the `with` block
StatusOnlyAdvances_Witness ==
    \E id \in DOMAIN search_sessions :
        /\ search_sessions[id].status = "timeout"
        /\ future[id].kind = "exc"
        /\ TrackerAt(id) = "done"

\* C3: a record's progress never decreases from one state to the next.
ProgressNeverDecreases ==
    [][\A id \in Ids : Both(id) =>
          search_sessions'[id].progress >= search_sessions[id].progress]_vars

\* C4: a record with a terminal status has the progress fixed for that status.
FixedProgress(status) ==
    CASE status = "completed"       -> 100
      [] status = "partial_success" -> 90
      [] status = "timeout"         -> 75
      [] OTHER                      -> 0

TerminalProgressFixed ==
    \A id \in DOMAIN search_sessions :
        search_sessions[id].status \in Terminal =>
            search_sessions[id].progress = FixedProgress(search_sessions[id].status)

\* C5: every new value of a record's output_log extends the previous one.
OutputLogAppendOnly ==
    [][\A id \in Ids : Both(id) =>
          IsPrefix(search_sessions[id].output_log, search_sessions'[id].output_log)]_vars

\* C6: the terminal status and result of a record in the store follow from how
\* the tracker's wait ended: a returned non-empty final_answer gives completed
\* with that answer, a returned state without one (or no state) partial_success,
\* an expired wait timeout with the fixed text, a raised failure error with the
\* failure's description.
StatusOfWait(fs) ==
    CASE fs.how = "expired"              -> "timeout"
      [] fs.how = "raised"               -> "error"
      [] fs.how = "state" /\ Truthy(fs.val) -> "completed"
      [] OTHER                           -> "partial_success"

TerminalFollowsWait ==
    \A id \in DOMAIN search_sessions :
        search_sessions[id].status \in Terminal =>
            /\ final_state[id].how # "none"
            /\ search_sessions[id].status = StatusOfWait(final_state[id])
            /\ search_sessions[id].status = "completed" =>
                   search_sessions[id].result = final_state[id].val
            /\ search_sessions[id].status = "timeout" =>
                   search_sessions[id].result = TimeoutText
            /\ search_sessions[id].status = "error" =>
                   search_sessions[id].message = ErrorMessage(final_state[id].err)

\* C7: under fair scheduling every record, whatever its question, is eventually
\* terminal or deleted.
EventuallyTerminal ==
    \A id \in Ids : InStore(id) ~> (~InStore(id) \/ IsTerminal(id))

\* a job with an empty question marked timeout, its pipeline never having returned
EventuallyTerminal_Witness ==
    \E id \in DOMAIN search_sessions :
        /\ search_sessions[id].question = ""
        /\ search_sessions[id].status = "timeout"
        /\ PipelineAt(id) = "invoke"

\* C8: once the wait has expired the timeout update can run whatever run_graph is
\* doing, and it writes status timeout, progress 75 and the fixed text without
\* moving the pipeline thread.
TimeoutWriteDoesNotWait ==
    /\ [](\A id \in Ids :
            TrackerAt(id) = "upd_timeout" /\ final_state[id].how = "expired"
                => ENABLED TerminalUpdate(id))
    /\ [][\A id \in Ids :
            /\ TrackerAt(id) = "upd_timeout"
            /\ final_state[id].how = "expired"
            /\ pc'[id]["tracker"].site # "upd_timeout"
            /\ id \in DOMAIN search_sessions'
            => /\ search_sessions'[id].status = "timeout"
               /\ search_sessions'[id].progress = 75
               /\ search_sessions'[id].result = TimeoutText
               /\ pc'[id]["pipeline"] = pc[id]["pipeline"]]_vars

\* a record a poller finds marked timeout while graph.invoke has not returned
TimeoutWriteDoesNotWait_Witness ==
    \E id \in DOMAIN search_sessions :
        /\ StatusResponse(id).status = "timeout"
        /\ StatusResponse(id).progress = 75
        /\ StatusResponse(id).result = TimeoutText
        /\ final_state[id].how = "expired"
        /\ PipelineAt(id) = "invoke"

\* C9: a record enters the store only under an id never produced before, as a
\* started record with progress 0, no result and an empty log, the tracker not
\* having taken a step; the response carries that id and status "started".
SubmitStoresStarted ==
    [][\A id \in Ids :
          ~InStore(id) /\ id \in DOMAIN search_sessions'
          => /\ id \notin issued
             /\ search_sessions'[id].session_id = id
             /\ search_sessions'[id].question \in Questions
             /\ search_sessions'[id].status = "started"
             /\ search_sessions'[id].progress = 0
             /\ search_sessions'[id].result = None
             /\ search_sessions'[id].output_log = <<>>
             /\ pc'[id]["tracker"] = Goto("set_running")
             /\ pc'[id]["pipeline"] = Goto("idle")
             /\ SearchResponse(id).session_id = id
             /\ SearchResponse(id).status = search_sessions'[id].status
             /\ \A other \in DOMAIN search_sessions :
                    search_sessions'[other] = search_sessions[other]]_vars

\* a record just submitted with the empty question, its worker not yet run
SubmitStoresStarted_Witness ==
    \E id \in DOMAIN search_sessions :
        /\ search_sessions[id] = NewSession(id, "")
        /\ TrackerAt(id) = "set_running"

\* C10: a deleted record never comes back, so GET /status keeps answering
\* not-found for its id.
DeletedStaysDeleted ==
    /\ [][\A id \in issued : ~InStore(id) => id \notin DOMAIN search_sessions']_vars
    /\ [](\A id \in issued : ~InStore(id) => StatusResponse(id).code = 404)

\* a deleted job whose pipeline and tracker threads both went on to their next
\* write and found the record gone
DeletedStaysDeleted_Witness ==
    \E id \in issued :
        /\ ~InStore(id)
        /\ future[id].err = KeyError
        /\ TrackerAt(id) = "dead"

\* C11: GET /status, GET /output and DELETE /session called with an id that is
\* not in the store (never issued, or already deleted) answer not-found, and the
\* call leaves the store as it was.
UnknownIdNotFound ==
    /\ [](\A id \in Ids :
            ~InStore(id) => /\ StatusResponse(id) = NotFound
                            /\ OutputResponse(id) = NotFound
                            /\ DeleteResponse(id) = NotFound)
    /\ [][\A id \in Ids :
            /\ ~InStore(id)
            /\ get_search_status(id) \/ get_output_log(id) \/ delete_session(id)
            => UNCHANGED search_sessions]_vars

\* one id was issued and deleted, the other was never issued, and neither
\* is in the store
UnknownIdNotFound_Witness ==
    \E i, j \in Ids :
        /\ i \in issued /\ ~InStore(i)
        /\ j \notin issued /\ ~InStore(j)

\* the text of the log line that announces a phase, by the phase's current_step
PhaseText(step) ==
    CASE step = "initializing"          -> "initializing"
      [] step = "research_started"      -> "research_started"
      [] step = "completed"             -> "Research completed successfully!"
      [] step = "completed_with_issues" -> "Research completed with some issues"
      [] step = "timeout"               -> "Research timed out after 7 minutes"
      [] OTHER                          -> "Research failed: "

\* the record is as start_search created it (no line is due), or its log holds
\* the line of the phase its fields show
PhaseLogged(rec) ==
    \/ rec.status = "started" /\ rec.progress = 0
    \/ \E i \in 1..Len(rec.output_log) :
           rec.output_log[i].text = PhaseText(rec.current_step)

\* C12: the output_log line of a phase transition is appended before, or in the
\* same step as, the change of status, progress and message: no record shows
\* the fields of a phase whose line its output_log lacks.
LogLineNotLater ==
    \A id \in DOMAIN search_sessions : PhaseLogged(search_sessions[id])

\* the next statement of the thread of role r of job id writes the job's record:
\* a dict.update, the assignment of status, or the assignment of output_log
WritesNext(id, r) ==
    /\ InStore(id)
    /\ \/ pc[id][r].sub \in {"uupd", "lwrite"}
       \/ /\ r = "tracker"
          /\ pc[id][r].site \in {"set_running", "upd_completed", "upd_partial",
                                 "upd_timeout", "exc_upd"}

\* C13: at most one thread mutates a job's record at a time: in no state are the
\* tracker thread and the pipeline thread of one job both about to write the
\* job's lifecycle fields, the states after a timed-out wait included.
SingleWriter ==
    \A id \in Ids : ~(WritesNext(id, "tracker") /\ WritesNext(id, "pipeline"))

\* the tracker of job id executes one of the four update statements that carry
\* completed_at (lines 110, 120, 131, 144)
StampStep(id) ==
    /\ TrackerAt(id) \in {"upd_completed", "upd_partial", "upd_timeout", "exc_upd"}
    /\ pc'[id]["tracker"] # pc[id]["tracker"]

\* C14: completed_at is absent while status is started or running, is set in the
\* step that makes the status terminal, and is never written again after that.
CompletedAtOnce ==
    /\ [](\A id \in DOMAIN search_sessions :
            search_sessions[id].completed_at = None
                <=> search_sessions[id].status \in {"started", "running"})
    /\ [][\A id \in Ids : Both(id) =>
            /\ search_sessions'[id].completed_at # search_sessions[id].completed_at
                   => /\ search_sessions[id].status \notin Terminal
                      /\ search_sessions'[id].status \in Terminal
            /\ search_sessions[id].completed_at # None => ~StampStep(id)]_vars

\* a job that timed out, was stamped, and whose two threads have both ended
CompletedAtOnce_Witness ==
    \E id \in DOMAIN search_sessions :
        /\ search_sessions[id].status = "timeout"
        /\ search_sessions[id].completed_at = "now"
        /\ TrackerAt(id) = "done"
        /\ PipelineAt(id) = "done"

\* C15: the reading handlers (GET /status, /output, /sessions, /health) leave
\* every record of the store as it was, and a DELETE /session/{id} of a stored
\* id removes the record of that id and no other, leaving the others unchanged.
ApiFrame ==
    [][/\ \/ \E id \in Ids : get_search_status(id) \/ get_output_log(id)
          \/ list_sessions
          \/ health_check
          => UNCHANGED search_sessions
       /\ \A id \in Ids :
            InStore(id) /\ delete_session(id)
            => /\ DOMAIN search_sessions' = DOMAIN search_sessions \ {id}
               /\ \A other \in DOMAIN search_sessions' :
                      search_sessions'[other] = search_sessions[other]]_vars

\* one job was deleted while the other, already past its first progress
\* update, stayed in the store
ApiFrame_Witness ==
    \E i, j \in Ids :
        /\ i \in issued /\ ~InStore(i)
        /\ InStore(j) /\ search_sessions[j].progress > 0

\* C18: while several jobs run, a step of the tracker or pipeline thread of job a
\* (every such step moves a control point of job a) writes only a's record: it
\* changes no field of another job's record and neither removes nor creates
\* another job's record.
OtherJobsUntouched ==
    [][\A a \in Ids :
          pc'[a] # pc[a]
          => \A b \in Ids \ {a} :
                /\ InStore(b) <=> b \in DOMAIN search_sessions'
                /\ Both(b) => search_sessions'[b] = search_sessions[b]]_vars

\* two jobs in the store whose threads are both in the middle of writing: one
\* job's tracker is about to apply its timeout update while the other job's
\* pipeline is about to assign output_log
OtherJobsUntouched_Witness ==
    \E a, b \in DOMAIN search_sessions :
        /\ a # b
        /\ TrackerAt(a) = "upd_timeout"
        /\ pc[b]["pipeline"].sub = "lwrite"

\* the values of progress and current_step that only a terminal update writes
TerminalProgress == {100, 90, 75}
TerminalSteps == {"completed", "completed_with_issues", "timeout", "error"}

\* C19: every GET /status response is a consistent snapshot of the record, also
\* when the worker writes while the handler reads: a response with a
\* non-terminal status carries a null result and no terminal progress or
\* current_step, and a response with a terminal status carries a result.
StatusResponseConsistent ==
    reader.pc = "respond" /\ reader.resp.code = 200 =>
        /\ reader.resp.status \in Terminal <=> reader.resp.result # None
        /\ reader.resp.status \notin Terminal =>
               /\ reader.resp.progress \notin TerminalProgress
               /\ reader.resp.current_step \notin TerminalSteps

\* the provider's answer is a success: a success status with a JSON object
Succeeded(response) == response.kind = "ok" /\ response.body.type = "object"

\* C16: serp_search with engine google or bing tries the zones in order and
\* returns the normalized result (knowledge and organic, an empty container
\* for a missing one) of the first zone whose request succeeds; when every
\* zone ends in a transport error, an error status or a malformed payload it
\* returns the absent result; it never raises.
SerpFirstSuccess ==
    serp.pc # "idle" /\ serp.engine \in {"google", "bing"} =>
        /\ serp.pc # "raised"
        /\ serp.pc = "returned" =>
             IF \E z \in 1..Len(serp.answers) : Succeeded(serp.answers[z])
             THEN LET first == CHOOSE z \in 1..Len(serp.answers) :
                                  /\ Succeeded(serp.answers[z])
                                  /\ \A y \in 1..(z - 1) : ~Succeeded(serp.answers[y])
                  IN serp.result = Normalized(serp.answers[first].body)
             ELSE /\ serp.result = JsonNull
                  /\ Len(serp.answers) = Len(zones_to_try)

\* the trigger request failed, or its answer carries no usable snapshot_id
TriggerFailed == ~JsonTruthy(snap.trigger_result)
NoSnapshotId ==
    /\ snap.trigger_result.type = "object"
    /\ ~Truthy(Get(snap.trigger_result, "snapshot_id", None))

\* C17: _trigger_and_download_snapshot does trigger, poll, download in that
\* order: it polls only after the trigger returned a snapshot_id and downloads
\* only after the poll reported ready; a failed trigger, a missing snapshot_id
\* and a failed or timed-out poll each end the call with the absent result and
\* no later step.
SnapshotStepsOrdered ==
    snap.pc # "idle" =>
        /\ IsPrefix(snap.calls, <<"trigger", "poll", "download">>)
        /\ Len(snap.calls) >= 2 \/ snap.pc = "poll" =>
               /\ snap.trigger_result.type = "object"
               /\ snap.snapshot_id = Get(snap.trigger_result, "snapshot_id", None)
               /\ Truthy(snap.snapshot_id)
        /\ Len(snap.calls) = 3 \/ snap.pc = "download" => snap.poll = "ready"
        /\ snap.pc = "returned" /\ (TriggerFailed \/ NoSnapshotId) =>
               snap.result = JsonNull /\ snap.calls = <<"trigger">>
        /\ snap.pc = "raised" => snap.calls = <<"trigger">>
        /\ snap.pc = "returned" /\ snap.poll \in {"failed", "timeout"} =>
               snap.result = JsonNull /\ snap.calls = <<"trigger", "poll">>

\* a call that ended after a timed-out poll, and one that went through all
\* three steps, are both reachable; this is the first
SnapshotStepsOrdered_Witness ==
    /\ snap.pc = "returned"
    /\ snap.poll = "timeout"
    /\ snap.calls = <<"trigger", "poll">>

====
